---- MODULE Spec2Model ----
(***************************************************************************)
(* payloops/processor-razorpay: the webhook delivery activity              *)
(* (deliverWebhook) with its durable attempt bookkeeping, the operations   *)
(* of RazorpayProcessor (createPayment, capturePayment, refundPayment,     *)
(* getPaymentStatus, verifyPaymentSignature) and the activities that wrap  *)
(* them.                                                                   *)
(*                                                                         *)
(* One WebhookEvent row and one gateway order are modelled; the callers    *)
(* are concurrent invocations of the activities on that row / order.      *)
(* Every `await` of the source is a step boundary.                         *)
(***************************************************************************)
EXTENDS Integers, Sequences, FiniteSets, TLC

VARIABLES
    now,      \* Date.now(), milliseconds
    ticks,    \* how often the clock has been advanced by TimePasses
    rec,      \* the webhookEvents row of the event
    call,     \* per invocation slot of deliverWebhook: position and locals
    posts,    \* number of HTTP POSTs started for the event (observer)
    ret,      \* the WebhookDeliveryResult returned most recently, and by whom
    items,    \* the gateway's payment attempts of the order, items[0] first
    gwEvents, \* how often the gateway changed the attempts by itself
    cap,      \* per invocation slot of capturePayment: position and locals
    capInv,   \* number of capturePayment invocations started
    captureCalls, \* per payment id: payments.capture requests issued (observer)
    op,       \* per invocation slot of createPayment / getPaymentStatus /
              \* refundPayment: position and locals
    opInv,    \* number of such invocations started
    order,    \* the orders row of the order
    transactions, \* the distinct transactions rows inserted for the order
    reported, \* per payment id: the first captured / failed status a
              \* getPaymentStatus result carried for it (observer)
    vfy,      \* the verifyPaymentSignature call at hand: arguments, result,
              \* and the arguments and result of the call before it
    params    \* what deliverWebhook is called with for the event:
              \* webhookEventId, webhookSecret, payload

dvars == <<now, ticks, rec, call, posts, ret>>
gvars == <<items, gwEvents, cap, capInv, captureCalls>>
ovars == <<order, transactions, reported>>
rvars == <<op, opInv, order, transactions, reported, vfy, params>>
vars == <<now, ticks, rec, call, posts, ret, items, gwEvents, cap, capInv, captureCalls,
          op, opInv, order, transactions, reported, vfy, params>>

----------------------------------------------------------------------------
(* Bounds of the model *)

MaxPosts == 13
MaxConcurrentPosts == 3
MaxTicks == 1
MaxItems == 2
MaxGatewayEvents == 1
MaxCaptureInvocations == 3
MaxInvocations == 3
MaxSignedPosts == 2

(* Program constants *)

FetchTimeoutMs == 30000
RetryCeiling == 5

Callers == {"a1", "a2"}
\* the poller dispatches one invocation at a time
PollerCallers == {"a1"}
NoCaller == "none"

\* HTTP status codes the destination answers with; response.ok is 200..299
StatusCodes == {200, 404, 500}
\* fetch() rejections: AbortSignal.timeout(30000) and a network failure
FetchErrors == {"timeout", "network"}

Min(a, b) == IF a <= b THEN a ELSE b

----------------------------------------------------------------------------
(* The store: drizzle's update(...).set({...}).  A column is an optional   *)
(* value: {} is SQL NULL, {v} is the value v.  A key of the set-object is  *)
(* either a value or `undefined`.                                          *)

Null == {}
Undefined == [def |-> FALSE]
Val(x) == [def |-> TRUE, val |-> x]

\* db.update(webhookEvents).set(patch).where(id = event): a key whose value
\* is undefined is left out of the UPDATE statement, the column keeps its value
ApplySet(row, patch) ==
    [f \in DOMAIN row |->
        IF f \in DOMAIN patch /\ patch[f].def THEN patch[f].val ELSE row[f]]

\* response.ok
ResponseOk(code) == code >= 200 /\ code <= 299

\* (event[0]?.attempts || 0) + 1
AttemptNumberSkips(row) == row.attempts + 2

AttemptNumber(row) == row.attempts + 1

\* Math.min(baseDelay * Math.pow(2, attempts - 1), maxDelay), response path
DelayResponse(attempts) ==
    LET baseDelay == 60 * 1000
        maxDelay == 24 * 60 * 60 * 1000
    IN  Min(baseDelay * 2 ^ (attempts - 1), maxDelay)

\* the same computation in the catch block
DelayCatchOffByOne(attempts) == Min((60 * 1000) * 2 ^ attempts, 24 * 60 * 60 * 1000)

DelayCatch(attempts) ==
    LET baseDelay == 60 * 1000
        maxDelay == 24 * 60 * 60 * 1000
    IN  Min(baseDelay * 2 ^ (attempts - 1), maxDelay)

\* the set-object of the update after a response was received
ResponseUpdate(success, attempts, delay, t) ==
    [ status        |-> Val(IF success THEN "delivered" ELSE "pending"),
      attempts      |-> Val(attempts),
      lastAttemptAt |-> Val({t}),
      deliveredAt   |-> IF success THEN Val({t}) ELSE Undefined,
      nextRetryAt   |-> IF success THEN Undefined ELSE Val({t + delay}) ]

\* the set-object of the update in the catch block
CatchUpdate(attempts, delay, t) ==
    [ status        |-> Val(IF attempts >= RetryCeiling THEN "failed" ELSE "pending"),
      attempts      |-> Val(attempts),
      lastAttemptAt |-> Val({t}),
      nextRetryAt   |-> IF attempts >= RetryCeiling THEN Undefined ELSE Val({t + delay}) ]

----------------------------------------------------------------------------
(* deliverWebhook *)

\* webhookSecret?: string, the secret is absent, empty or set
WebhookSecrets == { Undefined, Val(""), Val("whsec_1"), Val("whsec_2") }

Payloads ==
    { [ event |-> "payment.captured", orderId |-> "order_1" ],
      [ event |-> "payment.failed", orderId |-> "order_1" ],
      [ event |-> "refund.processed", orderId |-> "order.2" ] }

EventParams == [ webhookEventId : {"evt_1", "evt_2"}, webhookSecret : WebhookSecrets,
                 payload : Payloads ]

\* line 194: JSON.stringify(payload)
JsonStringify(payload) ==
    "{\"event\":\"" \o payload.event \o "\",\"orderId\":\"" \o payload.orderId \o "\"}"

\* createHmac('sha256', key).update(message).digest('hex'), as in
\* verifyPaymentSignature
WebhookHmacSha256Hex(key, message) == "hmac-sha256[" \o key \o "][" \o message \o "]"

\* if (webhookSecret): undefined and the empty string are falsy
Truthy(x) == x.def /\ x.val # ""

\* lines 194-212: the request deliverWebhook POSTs when Date.now() is t
OutboundRequestSignsAnySecret(p, t) ==
    LET body == JsonStringify(p.payload)
        headers == [ ContentType |-> "application/json",
                     XLoopEventId |-> p.webhookEventId,
                     XLoopTimestamp |-> ToString(t) ]
    IN  [ method |-> "POST",
          body |-> body,
          headers |-> IF p.webhookSecret.def
                      THEN [ ContentType |-> headers.ContentType,
                             XLoopEventId |-> headers.XLoopEventId,
                             XLoopTimestamp |-> headers.XLoopTimestamp,
                             XLoopSignature |->
                                 "v1=" \o WebhookHmacSha256Hex(p.webhookSecret.val,
                                              headers.XLoopTimestamp \o "." \o body) ]
                      ELSE headers ]

OutboundRequest(p, t) ==
    LET body == JsonStringify(p.payload)
        headers == [ ContentType |-> "application/json",
                     XLoopEventId |-> p.webhookEventId,
                     XLoopTimestamp |-> ToString(t) ]
    IN  [ method |-> "POST",
          body |-> body,
          headers |-> IF Truthy(p.webhookSecret)
                      THEN [ ContentType |-> headers.ContentType,
                             XLoopEventId |-> headers.XLoopEventId,
                             XLoopTimestamp |-> headers.XLoopTimestamp,
                             XLoopSignature |->
                                 "v1=" \o WebhookHmacSha256Hex(p.webhookSecret.val,
                                              headers.XLoopTimestamp \o "." \o body) ]
                      ELSE headers ]

\* the request of an invocation whose POST is under way
RequestInFlight(c) == OutboundRequest(params, call[c].postedAt)

IdleCall ==
    [ pc |-> "idle", seen |-> "", prior |-> 0, attempts |-> 0, postedAt |-> 0,
      code |-> 0, delay |-> 0, err |-> "" ]

\* the invocation is over: only what it read and how it ended is kept
Ended(c, how) ==
    [IdleCall EXCEPT !.pc = how, !.seen = call[c].seen, !.prior = call[c].prior,
                     !.attempts = call[c].attempts]

NoResult == [ by |-> NoCaller, at |-> 0, success |-> FALSE, statusCode |-> 0, attempts |-> 0, errorMessage |-> "" ]

Active(c) == call[c].pc \in {"fetching", "tryUpdate", "catchUpdate"}
NoneActive == \A c \in Callers : ~Active(c)

\* lines 186-212: read the row, compute the attempt number, build the request
\* and start the POST
DeliverSelect(c) ==
    /\ ~Active(c)
    /\ call' = [call EXCEPT ![c] =
                  [IdleCall EXCEPT !.pc = "fetching",
                                   !.seen = rec.status,
                                   !.prior = rec.attempts,
                                   !.attempts = AttemptNumber(rec),
                                   !.postedAt = now]]
    /\ posts' = posts + 1
    /\ UNCHANGED <<now, ticks, rec, ret>>
    /\ UNCHANGED <<gvars, rvars>>

\* lines 207-217: fetch resolves with a response
FetchResponds(c, code) ==
    /\ call[c].pc = "fetching"
    /\ call' = [call EXCEPT ![c].pc = "tryUpdate",
                            ![c].code = code,
                            ![c].delay = DelayResponse(call[c].attempts)]
    /\ UNCHANGED <<now, ticks, rec, posts, ret>>
    /\ UNCHANGED <<gvars, rvars>>

\* lines 207-212, 237-241: fetch rejects (timeout after 30 s, or network error)
FetchThrows(c, e) ==
    /\ call[c].pc = "fetching"
    /\ e = "timeout" => now >= call[c].postedAt + FetchTimeoutMs
    /\ call' = [call EXCEPT ![c].pc = "catchUpdate",
                            ![c].err = e,
                            ![c].delay = DelayCatch(call[c].attempts)]
    /\ UNCHANGED <<now, ticks, rec, posts, ret>>
    /\ UNCHANGED <<gvars, rvars>>

\* lines 219-236: the update after a response, and the return
TryUpdateReturnsAtomicIncrement(c) ==
    /\ call[c].pc = "tryUpdate"
    /\ LET success == ResponseOk(call[c].code)
       IN  /\ rec' = ApplySet(rec, ResponseUpdate(success, rec.attempts + 1, call[c].delay, now))
           /\ ret' = [ by |-> c, at |-> now,
                       success |-> success,
                       statusCode |-> call[c].code,
                       attempts |-> call[c].attempts,
                       errorMessage |-> IF success THEN "" ELSE "HTTP" ]
    /\ call' = [call EXCEPT ![c] = Ended(c, "returned")]
    /\ UNCHANGED <<now, ticks, posts>>
    /\ UNCHANGED <<gvars, rvars>>

TryUpdateReturns(c) ==
    /\ call[c].pc = "tryUpdate"
    /\ LET success == ResponseOk(call[c].code)
       IN  /\ rec' = ApplySet(rec, ResponseUpdate(success, call[c].attempts, call[c].delay, now))
           /\ ret' = [ by |-> c, at |-> now,
                       success |-> success,
                       statusCode |-> call[c].code,
                       attempts |-> call[c].attempts,
                       errorMessage |-> IF success THEN "" ELSE "HTTP" ]
    /\ call' = [call EXCEPT ![c] = Ended(c, "returned")]
    /\ UNCHANGED <<now, ticks, posts>>
    /\ UNCHANGED <<gvars, rvars>>

\* lines 219-228, 237-241: the update after a response rejects (the store is
\* unreachable, or the acknowledgement is lost after the row was written);
\* control moves to the catch block
TryUpdateThrows(c, applied) ==
    /\ call[c].pc = "tryUpdate"
    /\ rec' = IF applied
              THEN ApplySet(rec, ResponseUpdate(ResponseOk(call[c].code), call[c].attempts, call[c].delay, now))
              ELSE rec
    /\ call' = [call EXCEPT ![c].pc = "catchUpdate",
                            ![c].err = "store",
                            ![c].delay = DelayCatch(call[c].attempts)]
    /\ UNCHANGED <<now, ticks, posts, ret>>
    /\ UNCHANGED <<gvars, rvars>>

\* lines 243-253: the update of the catch block, and the return
CatchUpdateReturns(c) ==
    /\ call[c].pc = "catchUpdate"
    /\ rec' = ApplySet(rec, CatchUpdate(call[c].attempts, call[c].delay, now))
    /\ ret' = [ by |-> c, at |-> now,
                success |-> FALSE,
                statusCode |-> 0,
                attempts |-> call[c].attempts,
                errorMessage |-> call[c].err ]
    /\ call' = [call EXCEPT ![c] = Ended(c, "returned")]
    /\ UNCHANGED <<now, ticks, posts>>
    /\ UNCHANGED <<gvars, rvars>>

\* lines 243-251: the update of the catch block rejects; the exception leaves
\* the activity
CatchUpdateThrows(c, applied) ==
    /\ call[c].pc = "catchUpdate"
    /\ rec' = IF applied
              THEN ApplySet(rec, CatchUpdate(call[c].attempts, call[c].delay, now))
              ELSE rec
    /\ call' = [call EXCEPT ![c] = Ended(c, "threw")]
    /\ UNCHANGED <<now, ticks, posts, ret>>
    /\ UNCHANGED <<gvars, rvars>>

\* the invocation is cancelled or its worker is lost while the POST of
\* line 207 is in flight: nothing after the await runs
Abandon(c) ==
    /\ call[c].pc = "fetching"
    /\ call' = [call EXCEPT ![c] = Ended(c, "abandoned")]
    /\ UNCHANGED <<now, ticks, rec, posts, ret>>
    /\ UNCHANGED <<gvars, rvars>>

\* the clock advances
TimePasses ==
    /\ ticks < MaxTicks
    /\ now' = now + FetchTimeoutMs
    /\ ticks' = ticks + 1
    /\ UNCHANGED <<rec, call, posts, ret>>
    /\ UNCHANGED <<gvars, rvars>>

\* the external poller's query: status = pending AND nextRetryAt <= now
\* (a row never attempted has no nextRetryAt and is dispatched at once)
PollerDue ==
    /\ rec.status = "pending"
    /\ \A t \in rec.nextRetryAt : t <= now

\* the poller sleeps until the row is due
WaitUntilDue ==
    /\ NoneActive
    /\ rec.status = "pending"
    /\ \E t \in rec.nextRetryAt : t > now /\ now' = t
    /\ UNCHANGED <<ticks, rec, call, posts, ret>>
    /\ UNCHANGED <<gvars, rvars>>


----------------------------------------------------------------------------
(* The gateway (Razorpay) and RazorpayProcessor.capturePayment *)

CapCallers == {"k1", "k2"}
PayIds == <<"pay_1", "pay_2", "pay_3">>
PayIdSet == {PayIds[i] : i \in 1..Len(PayIds)}
\* payment states the gateway reports; "refunded" is one the processor's
\* status table does not list
GatewayStatuses == {"created", "authorized", "captured", "failed", "refunded"}

\* a RazorpayPayment: a failed attempt carries error_code / error_description
Payment(id, status) ==
    [ id |-> id, status |-> status,
      error_code |-> IF status = "failed" THEN "BAD_REQUEST_ERROR" ELSE "",
      error_description |-> IF status = "failed" THEN "Payment failed" ELSE "" ]

\* what a rejected SDK call throws: a structured gateway error
\* {error: {code, description}} or a plain Error with a message only
GatewayRejection == [ code |-> "BAD_REQUEST_ERROR", description |-> "rejected", message |-> "" ]
TransportError == [ code |-> "", description |-> "", message |-> "ECONNRESET" ]
SdkErrors == {GatewayRejection, TransportError}

\* a || b on strings: the empty string is falsy
OrElse(a, b) == IF a # "" THEN a ELSE b

NoPaymentResult ==
    [ success |-> FALSE, status |-> "", processorOrderId |-> "",
      processorTransactionId |-> "", errorCode |-> "", errorMessage |-> "" ]

\* lines 115-122
NoPaymentFoundPending ==
    [NoPaymentResult EXCEPT !.status = "pending", !.processorOrderId = "order_1"]

NoPaymentFound ==
    [NoPaymentResult EXCEPT !.status = "failed", !.errorCode = "no_payment",
                            !.errorMessage = "No payment found for order"]

\* lines 126-133 and 139-144
CapturedResult(id) ==
    [NoPaymentResult EXCEPT !.success = TRUE, !.status = "captured",
                            !.processorOrderId = "order_1",
                            !.processorTransactionId = id]

\* lines 147-152
NotCapturableResult(payment) ==
    [NoPaymentResult EXCEPT !.status = "failed",
                            !.errorCode = payment.error_code,
                            !.errorMessage = OrElse(payment.error_description,
                                                    "Payment status: " \o payment.status)]

\* lines 153-161
CaughtResult(err) ==
    [NoPaymentResult EXCEPT !.status = "failed",
                            !.errorCode = OrElse(err.code, "razorpay_error"),
                            !.errorMessage = OrElse(err.description, err.message)]

\* lines 115-152: what capturePayment does with the fetched attempts
CaptureBranchCapturesAgain(payments) ==
    IF ~payments.hasItems \/ Len(payments.items) = 0 THEN "no_payment"
    ELSE IF payments.items[1].status \in {"authorized", "captured"} THEN "capture"
    ELSE "other"

CaptureBranchCapturesCreated(payments) ==
    IF ~payments.hasItems \/ Len(payments.items) = 0 THEN "no_payment"
    ELSE IF payments.items[1].status = "captured" THEN "already"
    ELSE IF payments.items[1].status \in {"authorized", "created"} THEN "capture"
    ELSE "other"

CaptureBranch(payments) ==
    IF ~payments.hasItems \/ Len(payments.items) = 0 THEN "no_payment"
    ELSE IF payments.items[1].status = "captured" THEN "already"
    ELSE IF payments.items[1].status = "authorized" THEN "capture"
    ELSE "other"

NoPayment == Payment("", "")

IdleCap ==
    [ pc |-> "idle", found |-> FALSE, first |-> NoPayment, target |-> "",
      issued |-> 0, outcome |-> "", result |-> NoPaymentResult ]

CapActive(k) == cap[k].pc \in {"fetching", "capturing"}

\* lines 100-111: build the client (outside the try block) and request the
\* order's payments; the Razorpay constructor throws on unusable credentials
CaptureInvoke(k, clientOk) ==
    /\ ~CapActive(k)
    /\ capInv < MaxCaptureInvocations
    /\ capInv' = capInv + 1
    /\ cap' = [cap EXCEPT ![k] = [IdleCap EXCEPT !.pc = IF clientOk THEN "fetching" ELSE "threw"]]
    /\ UNCHANGED <<items, gwEvents, captureCalls>>
    /\ UNCHANGED <<dvars, rvars>>

\* lines 111-152: orders.fetchPayments resolves
FetchPaymentsReturns(k, hasItems) ==
    /\ cap[k].pc = "fetching"
    /\ LET payments == [hasItems |-> hasItems, items |-> IF hasItems THEN items ELSE <<>>]
           branch == CaptureBranch(payments)
           payment == payments.items[1]
       IN  /\ ~hasItems => items = <<>>
           /\ CASE branch = "no_payment" ->
                    /\ cap' = [cap EXCEPT ![k].pc = "returned", ![k].result = NoPaymentFound]
                    /\ UNCHANGED captureCalls
                [] branch = "already" ->
                    /\ cap' = [cap EXCEPT ![k].pc = "returned", ![k].found = TRUE,
                                          ![k].first = payment,
                                          ![k].result = CapturedResult(payment.id)]
                    /\ UNCHANGED captureCalls
                [] branch = "capture" ->
                    /\ cap' = [cap EXCEPT ![k].pc = "capturing", ![k].found = TRUE,
                                          ![k].first = payment,
                                          ![k].target = payment.id,
                                          ![k].issued = cap[k].issued + 1]
                    /\ captureCalls' = [captureCalls EXCEPT ![payment.id] = @ + 1]
                [] OTHER ->
                    /\ cap' = [cap EXCEPT ![k].pc = "returned", ![k].found = TRUE,
                                          ![k].first = payment,
                                          ![k].result = NotCapturableResult(payment)]
                    /\ UNCHANGED captureCalls
    /\ UNCHANGED <<items, gwEvents, capInv>>
    /\ UNCHANGED <<dvars, rvars>>

\* lines 111-113, 153-161: orders.fetchPayments rejects
FetchPaymentsThrows(k, err) ==
    /\ cap[k].pc = "fetching"
    /\ cap' = [cap EXCEPT ![k].pc = "returned", ![k].outcome = "fetch_threw",
                          ![k].result = CaughtResult(err)]
    /\ UNCHANGED <<items, gwEvents, capInv, captureCalls>>
    /\ UNCHANGED <<dvars, rvars>>

\* the gateway's side of payments.capture(id): an authorized attempt becomes
\* captured
GatewayCaptured(id) ==
    [i \in 1..Len(items) |->
        IF items[i].id = id /\ items[i].status = "authorized"
        THEN Payment(id, "captured") ELSE items[i]]

Capturable(id) == \E i \in 1..Len(items) : items[i].id = id /\ items[i].status = "authorized"

\* lines 137-144: payments.capture resolves with the captured payment
CaptureReturns(k) ==
    /\ cap[k].pc = "capturing"
    /\ Capturable(cap[k].target)
    /\ items' = GatewayCaptured(cap[k].target)
    /\ cap' = [cap EXCEPT ![k].pc = "returned", ![k].outcome = "ok",
                          ![k].result = CapturedResult(cap[k].target)]
    /\ UNCHANGED <<gwEvents, capInv, captureCalls>>
    /\ UNCHANGED <<dvars, rvars>>

\* lines 137, 153-161: payments.capture rejects: the gateway refuses an attempt
\* that is not authorized any more, or the transport fails before or after the
\* gateway acted
CaptureThrows(k, err, applied) ==
    /\ cap[k].pc = "capturing"
    /\ err = GatewayRejection => ~Capturable(cap[k].target) /\ ~applied
    /\ items' = IF applied THEN GatewayCaptured(cap[k].target) ELSE items
    /\ cap' = [cap EXCEPT ![k].pc = "returned", ![k].outcome = "threw",
                          ![k].result = CaughtResult(err)]
    /\ UNCHANGED <<gwEvents, capInv, captureCalls>>
    /\ UNCHANGED <<dvars, rvars>>

\* the customer or the gateway moves an attempt on
GatewayTransitions ==
    { <<"created", "authorized">>, <<"created", "captured">>, <<"created", "failed">>,
      <<"authorized", "captured">>, <<"authorized", "failed">>, <<"captured", "refunded">> }

GatewayEvent(i, s) ==
    /\ gwEvents < MaxGatewayEvents
    /\ i \in 1..Len(items)
    /\ <<items[i].status, s>> \in GatewayTransitions
    /\ items' = [items EXCEPT ![i] = Payment(items[i].id, s)]
    /\ gwEvents' = gwEvents + 1
    /\ UNCHANGED <<cap, capInv, captureCalls>>
    /\ UNCHANGED <<dvars, rvars>>

\* the customer starts another payment attempt on the order
NewAttempt(front) ==
    /\ gwEvents < MaxGatewayEvents
    /\ Len(items) < MaxItems
    /\ LET p == Payment(PayIds[Len(items) + 1], "created")
       IN  items' = IF front THEN <<p>> \o items ELSE Append(items, p)
    /\ gwEvents' = gwEvents + 1
    /\ UNCHANGED <<cap, capInv, captureCalls>>
    /\ UNCHANGED <<dvars, rvars>>

InitialItems ==
    UNION { { [i \in 1..n |-> Payment(PayIds[i], st[i])] : st \in [1..n -> GatewayStatuses] } : n \in 0..MaxItems }


----------------------------------------------------------------------------
(* RazorpayProcessor.createPayment, getPaymentStatus, refundPayment and the *)
(* activities processRazorpayPayment / refundRazorpayPayment               *)

OpCallers == {"p1"}
OpKinds == {"create", "query", "refund"}

\* the SDK request each operation issues
SdkCall(kind) ==
    CASE kind = "create" -> "orders.create"
      [] kind = "query"  -> "orders.fetchPayments"
      [] kind = "refund" -> "payments.refund"

\* refund states the gateway answers with
RefundStatuses == {"processed", "pending", "failed"}

\* lines 70-88: the order was created; the checkout is still to be done
CreatedResultSucceeds(orderId) ==
    [NoPaymentResult EXCEPT !.success = TRUE, !.status = "captured",
                            !.processorOrderId = orderId]

CreatedResult(orderId) ==
    [NoPaymentResult EXCEPT !.success = FALSE, !.status = "requires_action",
                            !.processorOrderId = orderId]

\* lines 89-97
CreateCaught(err) ==
    [NoPaymentResult EXCEPT !.status = "failed",
                            !.errorCode = OrElse(err.code, "razorpay_error"),
                            !.errorMessage = OrElse(err.description, err.message)]

\* lines 211-216: the statusMap object literal
StatusTable ==
    [ captured |-> "captured", authorized |-> "authorized",
      created |-> "pending", failed |-> "failed" ]

\* members every object literal inherits from Object.prototype
ObjectPrototypeKeys ==
    { "constructor", "toString", "valueOf", "hasOwnProperty", "__proto__" }

InheritedMember == "[Object.prototype member]"

\* statusMap[status]: an own key gives its value, an inherited key gives the
\* inherited member, any other key gives undefined (the falsy "")
StatusMapLookup(status) ==
    IF status \in DOMAIN StatusTable THEN StatusTable[status]
    ELSE IF status \in ObjectPrototypeKeys THEN InheritedMember
    ELSE ""

\* line 220: statusMap[payment.status] || 'failed'
MapStatus(status) == OrElse(StatusMapLookup(status), "failed")

\* lines 201-207
NoAttemptYetFails ==
    [NoPaymentResult EXCEPT !.status = "failed", !.processorOrderId = "order_1"]

NoAttemptYet ==
    [NoPaymentResult EXCEPT !.status = "pending", !.processorOrderId = "order_1"]

\* lines 209-225
StatusResultAlwaysSuccess(payment) ==
    [ success |-> TRUE,
      status |-> MapStatus(payment.status),
      processorOrderId |-> "order_1",
      processorTransactionId |-> payment.id,
      errorCode |-> payment.error_code,
      errorMessage |-> payment.error_description ]

StatusResult(payment) ==
    [ success |-> payment.status = "captured",
      status |-> MapStatus(payment.status),
      processorOrderId |-> "order_1",
      processorTransactionId |-> payment.id,
      errorCode |-> payment.error_code,
      errorMessage |-> payment.error_description ]

\* lines 226-234
QueryCaught(err) ==
    [NoPaymentResult EXCEPT !.status = "failed",
                            !.errorCode = OrElse(err.code, "razorpay_error"),
                            !.errorMessage = OrElse(err.description, err.message)]

NoRefundResult ==
    [ success |-> FALSE, refundId |-> "", status |-> "", errorCode |-> "", errorMessage |-> "" ]

\* lines 177-181
RefundedResultSettledOnly(refund) ==
    [NoRefundResult EXCEPT !.success = (refund.status = "processed"),
                           !.refundId = refund.id,
                           !.status = IF refund.status = "processed" THEN "success" ELSE "pending"]

RefundedResult(refund) ==
    [NoRefundResult EXCEPT !.success = TRUE,
                           !.refundId = refund.id,
                           !.status = IF refund.status = "processed" THEN "success" ELSE "pending"]

\* lines 182-190
RefundCaught(err) ==
    [NoRefundResult EXCEPT !.status = "failed",
                           !.errorCode = OrElse(err.code, "razorpay_error"),
                           !.errorMessage = OrElse(err.description, err.message)]

\* part_002 lines 88-95, 122-129, 156-163: no processorConfigs row
NoProcessorConfigSilent(kind) == NoPaymentResult

NoProcessorConfig(kind) ==
    IF kind = "refund"
    THEN [NoRefundResult EXCEPT !.status = "failed", !.errorCode = "no_processor_config",
                                !.errorMessage = "Razorpay processor not configured"]
    ELSE [NoPaymentResult EXCEPT !.status = "failed", !.errorCode = "no_processor_config",
                                 !.errorMessage = IF kind = "create"
                                                  THEN "Razorpay processor not configured for merchant"
                                                  ELSE "Razorpay processor not configured"]

IdleOp ==
    [ pc |-> "idle", kind |-> "", config |-> FALSE, found |-> FALSE, first |-> NoPayment,
      sent |-> <<>>, answer |-> "", result |-> NoPaymentResult ]

OpActive(k) == op[k].pc = "calling"

Budget == capInv + opInv < MaxInvocations

\* part_002 lines 79-95, 146-163: the activity finds no processorConfigs row
\* for the merchant and returns at once
ActivityNoConfig(k, kind) ==
    /\ ~OpActive(k)
    /\ Budget
    /\ kind \in {"create", "refund"}
    /\ opInv' = opInv + 1
    /\ op' = [op EXCEPT ![k] = [IdleOp EXCEPT !.pc = "returned", !.kind = kind,
                                              !.result = NoProcessorConfig(kind)]]
    /\ UNCHANGED ovars
    /\ UNCHANGED <<dvars, gvars, vfy, params>>

\* part_002 lines 112-129: the same in captureRazorpayPayment
CaptureNoConfig(k) ==
    /\ ~CapActive(k)
    /\ Budget
    /\ capInv < MaxCaptureInvocations
    /\ capInv' = capInv + 1
    /\ cap' = [cap EXCEPT ![k] = [IdleCap EXCEPT !.pc = "returned", !.outcome = "no_config",
                                                 !.result = NoProcessorConfig("capture")]]
    /\ UNCHANGED <<items, gwEvents, captureCalls>>
    /\ UNCHANGED <<dvars, rvars>>

\* lines 52-57, 164-172, 193-197: build the client (outside the try block)
\* and issue the operation's SDK request; the Razorpay constructor throws on
\* unusable credentials
OpInvoke(k, kind, clientOk) ==
    /\ ~OpActive(k)
    /\ Budget
    /\ opInv' = opInv + 1
    /\ op' = [op EXCEPT ![k] =
                 IF clientOk
                 THEN [IdleOp EXCEPT !.pc = "calling", !.kind = kind, !.config = TRUE,
                                     !.sent = <<SdkCall(kind)>>]
                 ELSE [IdleOp EXCEPT !.pc = "threw", !.kind = kind, !.config = TRUE]]
    /\ UNCHANGED ovars
    /\ UNCHANGED <<dvars, gvars, vfy, params>>

\* lines 57-88: orders.create resolves
CreateReturns(k) ==
    /\ op[k].pc = "calling" /\ op[k].kind = "create"
    /\ op' = [op EXCEPT ![k].pc = "returned", ![k].answer = "accepted",
                        ![k].result = CreatedResult("order_1")]
    /\ UNCHANGED <<opInv, ovars>>
    /\ UNCHANGED <<dvars, gvars, vfy, params>>

\* lines 57, 89-97: orders.create rejects
CreateThrows(k, err) ==
    /\ op[k].pc = "calling" /\ op[k].kind = "create"
    /\ op' = [op EXCEPT ![k].pc = "returned",
                        ![k].answer = IF err = GatewayRejection THEN "rejected" ELSE "transport",
                        ![k].result = CreateCaught(err)]
    /\ UNCHANGED <<opInv, ovars>>
    /\ UNCHANGED <<dvars, gvars, vfy, params>>

\* the observer's note of a returned status: the first captured / failed
\* reported for a payment id stays on record
Observe(seen, result) ==
    IF /\ result.processorTransactionId \in DOMAIN seen
       /\ seen[result.processorTransactionId] = ""
       /\ result.status \in {"captured", "failed"}
    THEN [seen EXCEPT ![result.processorTransactionId] = result.status]
    ELSE seen

\* lines 197-225: orders.fetchPayments resolves
QueryReturns(k, hasItems) ==
    /\ op[k].pc = "calling" /\ op[k].kind = "query"
    /\ ~hasItems => items = <<>>
    /\ op' = [op EXCEPT ![k] =
                 IF ~hasItems \/ Len(items) = 0
                 THEN [@ EXCEPT !.pc = "returned", !.answer = "empty", !.result = NoAttemptYet]
                 ELSE [@ EXCEPT !.pc = "returned", !.answer = "items", !.found = TRUE,
                                !.first = items[1], !.result = StatusResult(items[1])]]
    /\ reported' = IF hasItems /\ Len(items) > 0
                   THEN Observe(reported, StatusResult(items[1]))
                   ELSE reported
    /\ UNCHANGED <<opInv, order, transactions>>
    /\ UNCHANGED <<dvars, gvars, vfy, params>>

\* lines 197, 226-234: orders.fetchPayments rejects
QueryThrows(k, err) ==
    /\ op[k].pc = "calling" /\ op[k].kind = "query"
    /\ op' = [op EXCEPT ![k].pc = "returned",
                        ![k].answer = IF err = GatewayRejection THEN "rejected" ELSE "transport",
                        ![k].result = QueryCaught(err)]
    /\ UNCHANGED <<opInv, ovars>>
    /\ UNCHANGED <<dvars, gvars, vfy, params>>

\* lines 172-181: payments.refund resolves with a refund in state st
RefundReturns(k, st) ==
    /\ op[k].pc = "calling" /\ op[k].kind = "refund"
    /\ op' = [op EXCEPT ![k].pc = "returned", ![k].answer = st,
                        ![k].result = RefundedResult([id |-> "rfnd_1", status |-> st])]
    /\ UNCHANGED <<opInv, ovars>>
    /\ UNCHANGED <<dvars, gvars, vfy, params>>

\* lines 172, 182-190: payments.refund rejects
RefundThrows(k, err) ==
    /\ op[k].pc = "calling" /\ op[k].kind = "refund"
    /\ op' = [op EXCEPT ![k].pc = "returned",
                        ![k].answer = IF err = GatewayRejection THEN "rejected" ELSE "transport",
                        ![k].result = RefundCaught(err)]
    /\ UNCHANGED <<opInv, ovars>>
    /\ UNCHANGED <<dvars, gvars, vfy, params>>

----------------------------------------------------------------------------
(* updateOrderStatus (part_002 lines 40-75) *)

OrderStatuses == {"pending", "authorized", "captured", "failed"}

\* lines 66-70: the transactions row written for a status
TransactionRow(status, processorTransactionId) ==
    [ type |-> IF status = "captured" THEN "capture" ELSE "authorization",
      status |-> IF status = "failed" THEN "failed" ELSE "success",
      processorTransactionId |-> processorTransactionId ]

\* lines 51-58: .set({status, processorOrderId: processorOrderId || undefined})
\* writes the status whatever the row holds and skips an absent gateway id
OrderUpdate(row, status, processorOrderId) ==
    [ status |-> status,
      processorOrderId |-> OrElse(processorOrderId, row.processorOrderId) ]

\* lines 48-72; completes = FALSE: the select or insert after the update
\* throws and the activity fails with the update applied
UpdateOrderStatus(status, processorOrderId, processorTransactionId, completes) ==
    /\ order' = OrderUpdate(order, status, processorOrderId)
    /\ transactions' =
          IF processorTransactionId # "" /\ completes
          THEN transactions \cup {TransactionRow(status, processorTransactionId)}
          ELSE transactions
    /\ UNCHANGED <<op, opInv, reported, vfy, params>>
    /\ UNCHANGED <<dvars, gvars>>

----------------------------------------------------------------------------
(* RazorpayProcessor.verifyPaymentSignature (part_001 lines 237-250) *)

Secrets == {"secret_1", "secret_2"}
\* ids are arbitrary strings and may contain the separator
VerifyOrderIds == {"order_1", "order_2", "order_1|x"}
VerifyPaymentIds == {"pay_1", "pay_2", "x|pay_1"}

\* createHmac('sha256', key).update(message).digest('hex'): the digest is
\* taken as determined by, and determining, the key and the message
HmacSha256Hex(key, message) == "hmac-sha256[" \o key \o "][" \o message \o "]"

\* signatures a caller may present: every digest of the ids under the
\* secrets, and strings of other lengths
Signatures ==
    { HmacSha256Hex(k, o \o "|" \o p) :
          k \in Secrets, o \in VerifyOrderIds, p \in VerifyPaymentIds }
    \cup { "", "deadbeef" }

\* lines 243-249
VerifyPaymentSignatureDotted(orderId, paymentId, signature, keySecret) ==
    HmacSha256Hex(keySecret, orderId \o "." \o paymentId) = signature

VerifyPaymentSignature(orderId, paymentId, signature, keySecret) ==
    LET expectedSignature == HmacSha256Hex(keySecret, orderId \o "|" \o paymentId)
    IN  expectedSignature = signature

NoVerify == [ orderId |-> "", paymentId |-> "", result |-> FALSE ]

IdleVerify ==
    [ pc |-> "idle", orderId |-> "", paymentId |-> "", signature |-> "",
      keySecret |-> "", result |-> FALSE, before |-> NoVerify ]

\* a caller presents a checkout callback
Submit(orderId, paymentId, signature, keySecret) ==
    /\ vfy.pc = "idle"
    /\ vfy' = [IdleVerify EXCEPT !.pc = "submitted", !.orderId = orderId,
                                 !.paymentId = paymentId, !.signature = signature,
                                 !.keySecret = keySecret]
    /\ UNCHANGED <<op, opInv, ovars, params>>
    /\ UNCHANGED <<dvars, gvars>>

\* lines 237-250
Verify ==
    /\ vfy.pc = "submitted"
    /\ vfy' = [vfy EXCEPT !.pc = "verified",
                          !.result = VerifyPaymentSignature(vfy.orderId, vfy.paymentId,
                                                            vfy.signature, vfy.keySecret)]
    /\ UNCHANGED <<op, opInv, ovars, params>>
    /\ UNCHANGED <<dvars, gvars>>

\* the same signature is presented again with other ids
Resubmit(orderId, paymentId) ==
    /\ vfy.pc = "verified"
    /\ vfy.before = NoVerify
    /\ <<orderId, paymentId>> # <<vfy.orderId, vfy.paymentId>>
    /\ vfy' = [vfy EXCEPT !.pc = "submitted", !.orderId = orderId, !.paymentId = paymentId,
                          !.result = FALSE,
                          !.before = [ orderId |-> vfy.orderId, paymentId |-> vfy.paymentId,
                                       result |-> vfy.result ]]
    /\ UNCHANGED <<op, opInv, ovars, params>>
    /\ UNCHANGED <<dvars, gvars>>

----------------------------------------------------------------------------

DeliveryInit ==
    /\ params = [ webhookEventId |-> "evt_1", webhookSecret |-> Val("whsec_1"),
                  payload |-> [ event |-> "payment.captured", orderId |-> "order_1" ] ]
    /\ now = 0
    /\ ticks = 0
    /\ rec = [ status |-> "pending", attempts |-> 0, lastAttemptAt |-> Null,
               nextRetryAt |-> Null, deliveredAt |-> Null ]
    /\ call = [c \in Callers |-> IdleCall]
    /\ posts = 0
    /\ ret = NoResult

\* no processor operation has been invoked
ProcessorInit ==
    /\ gwEvents = 0
    /\ cap = [k \in CapCallers |-> IdleCap]
    /\ capInv = 0
    /\ captureCalls = [id \in PayIdSet |-> 0]
    /\ op = [k \in OpCallers |-> IdleOp]
    /\ opInv = 0
    /\ order = [status |-> "pending", processorOrderId |-> ""]
    /\ transactions = {}
    /\ reported = [id \in PayIdSet |-> ""]
    /\ vfy = IdleVerify

Init ==
    /\ DeliveryInit
    /\ items = <<>>
    /\ ProcessorInit

\* an invocation of the activity by any caller, at any time
Invoke(c) == posts < MaxConcurrentPosts /\ DeliverSelect(c)

\* an invocation by the poller: no other call runs, the row is pending and due
PollerDispatch(c) == posts < MaxPosts /\ NoneActive /\ PollerDue /\ DeliverSelect(c)

DeliverStep(c) ==
    \/ \E code \in StatusCodes : FetchResponds(c, code)
    \/ \E e \in FetchErrors : FetchThrows(c, e)
    \/ TryUpdateReturns(c)
    \/ \E applied \in BOOLEAN : TryUpdateThrows(c, applied)
    \/ CatchUpdateReturns(c)
    \/ \E applied \in BOOLEAN : CatchUpdateThrows(c, applied)
    \/ Abandon(c)

\* deliverWebhook invoked at any time by any number of callers
Next ==
    \/ \E c \in Callers : Invoke(c)
    \/ \E c \in Callers : DeliverStep(c)
    \/ TimePasses

Spec == Init /\ [][Next]_vars

\* deliverWebhook invoked by the poller of the design: one call at a time,
\* only for a row that is pending and due
PollerNext ==
    \/ \E c \in PollerCallers : PollerDispatch(c)
    \/ \E c \in PollerCallers : DeliverStep(c)
    \/ TimePasses
    \/ WaitUntilDue

SpecPoller == Init /\ [][PollerNext]_vars /\ WF_vars(PollerNext)

\* the same deliveries for any event id, secret and payload
SignInit ==
    /\ \E p \in EventParams :
          /\ params = p
          /\ now = 0
          /\ ticks = 0
          /\ rec = [ status |-> "pending", attempts |-> 0, lastAttemptAt |-> Null,
                     nextRetryAt |-> Null, deliveredAt |-> Null ]
          /\ call = [c \in Callers |-> IdleCall]
          /\ posts = 0
          /\ ret = NoResult
    /\ items = <<>>
    /\ ProcessorInit

SignNext ==
    \/ \E c \in PollerCallers : posts < MaxSignedPosts /\ NoneActive /\ DeliverSelect(c)
    \/ \E c \in PollerCallers : DeliverStep(c)
    \/ TimePasses

SpecSign == SignInit /\ [][SignNext]_vars

\* capturePayment invoked at any time by any number of callers, against a
\* gateway order in any state
CaptureInit ==
    /\ DeliveryInit
    /\ items \in InitialItems
    /\ ProcessorInit

CaptureNext ==
    \/ \E k \in CapCallers, clientOk \in BOOLEAN : CaptureInvoke(k, clientOk)
    \/ \E k \in CapCallers, hasItems \in BOOLEAN : FetchPaymentsReturns(k, hasItems)
    \/ \E k \in CapCallers, err \in SdkErrors : FetchPaymentsThrows(k, err)
    \/ \E k \in CapCallers : CaptureReturns(k)
    \/ \E k \in CapCallers, err \in SdkErrors, applied \in BOOLEAN : CaptureThrows(k, err, applied)
    \/ \E i \in 1..MaxItems, s \in GatewayStatuses : GatewayEvent(i, s)
    \/ \E front \in BOOLEAN : NewAttempt(front)

SpecCapture == CaptureInit /\ [][CaptureNext]_vars

\* all four operations of the processor and the activities around them,
\* invoked in any order against a gateway order in any state
CaptureStep(k) ==
    \/ \E clientOk \in BOOLEAN : Budget /\ CaptureInvoke(k, clientOk)
    \/ CaptureNoConfig(k)
    \/ \E hasItems \in BOOLEAN : FetchPaymentsReturns(k, hasItems)
    \/ \E err \in SdkErrors : FetchPaymentsThrows(k, err)
    \/ CaptureReturns(k)
    \/ \E err \in SdkErrors, applied \in BOOLEAN : CaptureThrows(k, err, applied)

OpStep(k) ==
    \/ \E kind \in OpKinds : ActivityNoConfig(k, kind)
    \/ \E kind \in OpKinds, clientOk \in BOOLEAN : OpInvoke(k, kind, clientOk)
    \/ CreateReturns(k)
    \/ \E err \in SdkErrors : CreateThrows(k, err)
    \/ \E hasItems \in BOOLEAN : QueryReturns(k, hasItems)
    \/ \E err \in SdkErrors : QueryThrows(k, err)
    \/ \E st \in RefundStatuses : RefundReturns(k, st)
    \/ \E err \in SdkErrors : RefundThrows(k, err)

ProcessorNext ==
    \/ \E k \in CapCallers : CaptureStep(k)
    \/ \E k \in OpCallers : OpStep(k)

SpecProcessor == CaptureInit /\ [][ProcessorNext]_vars

\* status reconciliation: getPaymentStatus polled while the gateway moves
\* the attempts on, and updateOrderStatus called with any status
ReconcileNext ==
    \/ \E k \in OpCallers, clientOk \in BOOLEAN : OpInvoke(k, "query", clientOk)
    \/ \E k \in OpCallers, hasItems \in BOOLEAN : QueryReturns(k, hasItems)
    \/ \E k \in OpCallers, err \in SdkErrors : QueryThrows(k, err)
    \/ \E i \in 1..MaxItems, s \in GatewayStatuses : GatewayEvent(i, s)
    \/ \E front \in BOOLEAN : NewAttempt(front)
    \/ \E status \in OrderStatuses, processorOrderId \in {"", "order_1"},
          processorTransactionId \in {"", "pay_1"}, completes \in BOOLEAN :
          UpdateOrderStatus(status, processorOrderId, processorTransactionId, completes)

SpecReconcile == CaptureInit /\ [][ReconcileNext]_vars

\* payment.status is a string of the gateway's choosing: the listed states,
\* unlisted ones, and names every object literal inherits
StatusInputs ==
    { "created", "authorized", "captured", "failed", "refunded", "", "CAPTURED",
      "constructor", "toString", "__proto__" }

MapStatusInit ==
    /\ DeliveryInit
    /\ items \in { <<Payment("pay_1", s)>> : s \in StatusInputs }
    /\ ProcessorInit

\* getPaymentStatus against an order whose first attempt reports any string
MapStatusNext ==
    \/ \E k \in OpCallers, clientOk \in BOOLEAN : OpInvoke(k, "query", clientOk)
    \/ \E k \in OpCallers, hasItems \in BOOLEAN : QueryReturns(k, hasItems)
    \/ \E k \in OpCallers, err \in SdkErrors : QueryThrows(k, err)

SpecMapStatus == MapStatusInit /\ [][MapStatusNext]_vars

\* checkout callbacks with any ids, any presented signature and any secret
VerifyNext ==
    \/ \E orderId \in VerifyOrderIds, paymentId \in VerifyPaymentIds,
          signature \in Signatures, keySecret \in Secrets :
          Submit(orderId, paymentId, signature, keySecret)
    \/ Verify
    \/ \E orderId \in VerifyOrderIds, paymentId \in VerifyPaymentIds :
          Resubmit(orderId, paymentId)

SpecVerify == Init /\ [][VerifyNext]_vars

----------------------------------------------------------------------------
(* The design's statements about deliver, to be compared with the code *)

Terminal == {"delivered", "failed"}

RECURSIVE Pow2(_)
Pow2(k) == IF k <= 0 THEN 1 ELSE 2 * Pow2(k - 1)

\* section 4.4 step 6: min(60_000ms * 2^(attempts-1), 86_400_000ms)
DesignDelay(n) == Min(60000 * Pow2(n - 1), 86400000)

DelayTable == <<60000, 120000, 240000, 480000, 960000>>

\* the invocation of slot c has returned and nothing was dispatched since
Returned(c) == call[c].pc = "returned" /\ ret.by = c

\* C1: after every failed delivery attempt (non-2xx response, timeout or
\* network error) numbered attempts = prior + 1: with attempts >= 5 the row is
\* failed and has no nextRetryAt, otherwise it is pending with
\* nextRetryAt = now + delay.
C1_FailedAttemptBookkeeping ==
    \A c \in PollerCallers :
        (Returned(c) /\ ~ret.success) =>
            IF call[c].attempts >= 5
            THEN rec.status = "failed" /\ rec.nextRetryAt = Null
            ELSE /\ rec.status = "pending"
                 /\ rec.nextRetryAt = {ret.at + DesignDelay(call[c].attempts)}

\* C2: under the poller every event ends delivered or failed and its
\* persisted attempts never exceed 5: once five attempts are recorded and no
\* call is running, the row is terminal, so the poller never picks it again.
C2_BoundedRetries ==
    /\ rec.attempts <= 5
    /\ (NoneActive /\ rec.attempts >= 5) => rec.status \in Terminal

\* C3: a deliver call that found the row delivered or failed when it read it
\* changes no field of the row in any of its steps.
C3_TerminalAbsorbing ==
    [][\A c \in Callers :
          (call[c].seen \in Terminal /\ call'[c] # call[c]) => rec' = rec]_vars

\* C4: after a 2xx response the row is delivered, has deliveredAt and has no
\* nextRetryAt, also when an earlier failure stored one; a failed row has no
\* nextRetryAt either.
C4_RetryTimeCleared ==
    /\ \A c \in PollerCallers :
          (Returned(c) /\ ret.success) =>
              /\ rec.status = "delivered"
              /\ rec.deliveredAt # Null
              /\ rec.nextRetryAt = Null
    /\ rec.status = "failed" => rec.nextRetryAt = Null

\* C5: the delay computed for attempt n is min(60000 * 2^(n-1), 86400000) ms
\* on the response path and on the catch path alike: 60 s, 120 s, 240 s, 480 s,
\* 960 s for n = 1..5, non-decreasing in n, never above 86,400,000 ms.
C5_BackoffDelay ==
    \A c \in Callers :
        call[c].pc \in {"tryUpdate", "catchUpdate"} =>
            LET n == call[c].attempts
                d == call[c].delay
            IN  /\ d = DesignDelay(n)
                /\ DelayResponse(n) = DelayCatch(n)
                /\ d <= 86400000
                /\ n <= 5 => d = DelayTable[n]
                /\ n > 1 => DelayResponse(n - 1) <= d /\ DelayCatch(n - 1) <= d

\* a delay was computed on the catch path at an attempt where the 24 h cap
\* applies, and on an earlier attempt where it does not
C5_Witness ==
    \E c \in Callers :
        /\ call[c].pc = "catchUpdate"
        /\ call[c].attempts = 12
        /\ call[c].delay = 86400000
        /\ rec.nextRetryAt = {ret.at + 61440000}

\* C6: with serialized calls, every call that returns has persisted
\* attempts = prior + 1, has stamped lastAttemptAt with the time of its
\* update, and returns the persisted attempts.
C6_OneIncrementPerCall ==
    \A c \in PollerCallers :
        Returned(c) =>
            /\ rec.attempts = call[c].prior + 1
            /\ rec.lastAttemptAt = {ret.at}
            /\ ret.attempts = rec.attempts

\* a third attempt that timed out has returned, after the clock advanced
C6_Witness ==
    /\ Returned("a1")
    /\ call["a1"].prior = 2
    /\ ret.errorMessage = "timeout"
    /\ ret.at > 0

\* C7: two overlapping calls that read the same prior attempts both
\* complete, and the row then counts one attempt more, not two, with the
\* next retry scheduled by the delay of that stale attempt number.
C7_LostUpdate ==
    \A c1, c2 \in Callers :
        (/\ c1 # c2
         /\ call[c1].pc = "returned"
         /\ call[c2].pc = "returned"
         /\ call[c1].prior = call[c2].prior) =>
            /\ rec.attempts = call[c1].prior + 1
            /\ rec.status = "pending" =>
                  rec.nextRetryAt = {ret.at + DesignDelay(call[c1].prior + 1)}

\* both calls read attempts = 1, both got HTTP 500 and both returned
C7_Witness ==
    /\ call["a1"].pc = "returned"
    /\ call["a2"].pc = "returned"
    /\ call["a1"].prior = 1
    /\ call["a2"].prior = 1
    /\ posts = 3
    /\ rec.attempts = 2
    /\ rec.status = "pending"
    /\ rec.nextRetryAt = {ret.at + 120000}

\* C8: an attempt abandoned while its POST is in flight is recorded: the row
\* then has attempts = prior + 1 and a lastAttemptAt, and with no call running
\* the POSTs started do not exceed the attempts recorded.
C8_AbandonedAttemptCounts ==
    /\ \A c \in PollerCallers :
          call[c].pc = "abandoned" =>
              rec.attempts = call[c].prior + 1 /\ rec.lastAttemptAt # Null
    /\ NoneActive => posts <= rec.attempts

----------------------------------------------------------------------------
(* The design's statements about captureOrder *)

\* PaymentResult{success:true, status:captured} carrying the attempt's id
DesignCaptured(id) ==
    [ success |-> TRUE, status |-> "captured", processorOrderId |-> "order_1",
      processorTransactionId |-> id, errorCode |-> "", errorMessage |-> "" ]

FoundFirst(k, status) == cap[k].found /\ cap[k].first.status = status

\* C9: a captureOrder call that finds the order's first attempt already
\* captured returns success/captured with that attempt's id and issues no
\* capture call; repeated calls that find it so return identical results.
C9_CaptureIdempotent ==
    /\ \A k \in CapCallers :
          (cap[k].pc = "returned" /\ FoundFirst(k, "captured")) =>
              /\ cap[k].result = DesignCaptured(cap[k].first.id)
              /\ cap[k].issued = 0
              /\ cap[k].outcome = ""
    /\ \A k1, k2 \in CapCallers :
          (/\ cap[k1].pc = "returned" /\ FoundFirst(k1, "captured")
           /\ cap[k2].pc = "returned" /\ FoundFirst(k2, "captured")
           /\ cap[k1].first.id = cap[k2].first.id) =>
              cap[k1].result = cap[k2].result

\* three calls found pay_1 captured, the last two have returned the same
\* success, and the gateway never saw a capture request
C9_Witness ==
    /\ capInv = 3
    /\ \A k \in CapCallers :
          /\ cap[k].pc = "returned"
          /\ FoundFirst(k, "captured")
          /\ cap[k].result.success
          /\ cap[k].result.processorTransactionId = "pay_1"
    /\ \A id \in PayIdSet : captureCalls[id] = 0

\* C10: a captureOrder call issues the gateway capture exactly once, for the
\* first attempt, when it finds that attempt authorized, and not at all in any
\* other case; when that capture does not fail the call returns
\* success/captured with the captured attempt's id.
C10_CaptureOnlyAuthorized ==
    \A k \in CapCallers :
        /\ cap[k].issued = IF FoundFirst(k, "authorized") THEN 1 ELSE 0
        /\ cap[k].issued > 0 => cap[k].target = cap[k].first.id
        /\ (cap[k].pc = "returned" /\ cap[k].outcome = "ok") =>
              /\ FoundFirst(k, "authorized")
              /\ cap[k].result = DesignCaptured(cap[k].first.id)

\* pay_1 was found authorized, captured by one request, and the call returned
C10_Witness ==
    \E k \in CapCallers :
        /\ cap[k].pc = "returned"
        /\ FoundFirst(k, "authorized")
        /\ cap[k].outcome = "ok"
        /\ cap[k].result.processorTransactionId = "pay_1"
        /\ captureCalls["pay_1"] = 1
        /\ items[1] = Payment("pay_1", "captured")

----------------------------------------------------------------------------
(* The design's statements about the processor's results *)

\* the PaymentResults the operations have returned and not yet replaced
PaymentResults ==
    { cap[k].result : k \in {c \in CapCallers : cap[c].pc = "returned"} }
    \cup { op[k].result : k \in {c \in OpCallers : op[c].pc = "returned"
                                                   /\ op[c].kind \in {"create", "query"}} }

\* C11: every PaymentResult returned by createOrder, captureOrder or
\* queryStatus, on every gateway response and every gateway error, has
\* success=true if and only if its status is captured.
C11_SuccessIffCaptured ==
    \A r \in PaymentResults : r.success <=> (r.status = "captured")

\* queryStatus has reported a captured attempt as a success while a
\* captureOrder call on an uncapturable attempt has returned a failure
C11_Witness ==
    /\ \E k \in OpCallers :
          /\ op[k].pc = "returned" /\ op[k].kind = "query"
          /\ op[k].result.success /\ op[k].result.status = "captured"
    /\ \E k \in CapCallers :
          /\ cap[k].pc = "returned" /\ cap[k].outcome = "ok"
          /\ cap[k].result.success /\ cap[k].result.status = "captured"
    /\ \E k \in CapCallers :
          /\ cap[k].pc = "returned"
          /\ ~cap[k].result.success /\ cap[k].result.status = "failed"

TerminalStatuses == {"captured", "failed"}

\* C12: captured and failed are terminal: once a queryStatus result has
\* reported captured or failed for a payment id, no later queryStatus result
\* for that id reports another status, and once the order row stores captured
\* or failed, no later status update stores another status.
C12_TerminalStatuses ==
    [][ /\ order.status \in TerminalStatuses => order'.status = order.status
        /\ \A k \in OpCallers :
              (/\ op[k].pc = "calling" /\ op'[k].pc = "returned"
               /\ op'[k].kind = "query" /\ op'[k].found
               /\ reported[op'[k].first.id] # "") =>
                  op'[k].result.status = reported[op'[k].first.id]
      ]_vars

CanonicalStatuses == {"pending", "authorized", "captured", "failed"}

\* the design's mapStatus: three exact tokens, everything else failed
DesignMapStatus(status) ==
    CASE status = "captured"   -> "captured"
      [] status = "authorized" -> "authorized"
      [] status = "created"    -> "pending"
      [] OTHER                 -> "failed"

\* C13: mapStatus is total and fail-closed: for every input string the status
\* queryStatus reports for an attempt is one of the four canonical values,
\* captured / authorized / pending only for the exact tokens "captured" /
\* "authorized" / "created", and failed for every other string.
C13_MapStatusFailClosed ==
    \A k \in OpCallers :
        (op[k].pc = "returned" /\ op[k].kind = "query" /\ op[k].found) =>
            /\ op[k].result.status \in CanonicalStatuses
            /\ op[k].result.status = DesignMapStatus(op[k].first.status)

\* a gateway failure normalised into a result
FailedWith(result, err) ==
    /\ ~result.success
    /\ result.status = "failed"
    /\ err.code # "" => result.errorCode = err.code
    /\ err.description # "" => result.errorMessage = err.description

\* C14: none of createOrder, captureOrder, refundPayment, queryStatus lets an
\* exception escape: every failure of the gateway client, while it is
\* constructed from the credentials or in a call it makes, ends in a returned
\* result with success=false, status=failed and the gateway's code and
\* description.
C14_NoExceptionEscapes ==
    /\ \A k \in OpCallers :
          /\ op[k].pc # "threw"
          /\ (op[k].pc = "returned" /\ op[k].answer = "rejected") =>
                 FailedWith(op[k].result, GatewayRejection)
          /\ (op[k].pc = "returned" /\ op[k].answer = "transport") =>
                 FailedWith(op[k].result, TransportError)
    /\ \A k \in CapCallers :
          /\ cap[k].pc # "threw"
          /\ (cap[k].pc = "returned" /\ cap[k].outcome \in {"threw", "fetch_threw"}) =>
                 (~cap[k].result.success /\ cap[k].result.status = "failed")

\* C15: createOrder never returns success=true or status=captured; an
\* accepted order gives success=false with the intermediate pending /
\* requires_action status and the gateway order id, a rejected one gives
\* success=false, status=failed with the gateway's code and message unchanged;
\* an invocation issues one orders.create request and no other request.
C15_CreateNeverCaptured ==
    \A k \in OpCallers :
        op[k].kind = "create" =>
            /\ op[k].pc \in {"calling", "returned"} /\ op[k].config =>
                   op[k].sent = <<"orders.create">>
            /\ op[k].pc = "returned" =>
                   /\ ~op[k].result.success
                   /\ op[k].result.status # "captured"
            /\ (op[k].pc = "returned" /\ op[k].answer = "accepted") =>
                   /\ op[k].result.status \in {"pending", "requires_action"}
                   /\ op[k].result.processorOrderId = "order_1"
            /\ (op[k].pc = "returned" /\ op[k].answer = "rejected") =>
                   /\ op[k].result.status = "failed"
                   /\ op[k].result.errorCode = GatewayRejection.code
                   /\ op[k].result.errorMessage = GatewayRejection.description

\* the gateway accepted the order of the second createOrder invocation, which
\* returned the intermediate status after its single request
C15_Witness ==
    \E k \in OpCallers :
        /\ opInv = 2
        /\ op[k].pc = "returned" /\ op[k].kind = "create" /\ op[k].answer = "accepted"
        /\ op[k].sent = <<"orders.create">>
        /\ op[k].result.status = "requires_action"
        /\ op[k].result.processorOrderId = "order_1"

\* C16: queryStatus is read-only and tells absence from failure: it issues no
\* request but the fetch of the order's attempts; with no attempt it returns
\* status=pending, success=false and no transaction id; otherwise it returns
\* the mapped status of the first attempt with that attempt's id.
C16_QueryReadOnly ==
    \A k \in OpCallers :
        op[k].kind = "query" =>
            /\ \A i \in 1..Len(op[k].sent) : op[k].sent[i] = "orders.fetchPayments"
            /\ (op[k].pc = "returned" /\ op[k].answer = "empty") =>
                   /\ op[k].result.status = "pending"
                   /\ ~op[k].result.success
                   /\ op[k].result.processorTransactionId = ""
            /\ (op[k].pc = "returned" /\ op[k].answer = "items") =>
                   /\ op[k].found /\ op[k].first.id = items[1].id
                   /\ op[k].result.status = DesignMapStatus(op[k].first.status)
                   /\ op[k].result.processorTransactionId = op[k].first.id

\* queryStatus returned pending for an order nobody has tried to pay yet, and
\* no capture request reached the gateway
C16_Witness ==
    \E k \in OpCallers :
        /\ items = <<>>
        /\ op[k].pc = "returned" /\ op[k].kind = "query" /\ op[k].answer = "empty"
        /\ op[k].sent = <<"orders.fetchPayments">>
        /\ op[k].result.status = "pending"
        /\ \A id \in PayIdSet : captureCalls[id] = 0

\* C17: refundPayment issues a single refund request; gateway status
\* processed gives success=true, status=success; any other accepted status
\* gives success=true, status=pending; a gateway exception gives
\* success=false, status=failed with the gateway's error; success is true
\* exactly when the gateway accepted the request.
C17_RefundMapping ==
    \A k \in OpCallers :
        op[k].kind = "refund" =>
            /\ op[k].pc \in {"calling", "returned"} /\ op[k].config =>
                   op[k].sent = <<"payments.refund">>
            /\ (op[k].pc = "returned" /\ op[k].config) =>
                   /\ op[k].result.success <=> op[k].answer \in RefundStatuses
                   /\ op[k].answer = "processed" => op[k].result.status = "success"
                   /\ op[k].answer \in RefundStatuses \ {"processed"} =>
                          op[k].result.status = "pending"
                   /\ op[k].answer = "rejected" => FailedWith(op[k].result, GatewayRejection)
                   /\ op[k].answer = "transport" => FailedWith(op[k].result, TransportError)

\* the gateway accepted a refund that is not settled yet: the call returned
\* success=true with status pending and the refund's id
C17_Witness ==
    \E k \in OpCallers :
        /\ op[k].pc = "returned" /\ op[k].kind = "refund" /\ op[k].answer = "pending"
        /\ op[k].sent = <<"payments.refund">>
        /\ op[k].result.success
        /\ op[k].result.status = "pending"
        /\ op[k].result.refundId = "rfnd_1"

\* the design's signed string and expected signature
DesignInboundSignature(orderId, paymentId, secret) ==
    HmacSha256Hex(secret, orderId \o "|" \o paymentId)

OneIdChanged ==
    (vfy.orderId # vfy.before.orderId) # (vfy.paymentId # vfy.before.paymentId)

\* C18: verifyInbound returns true if and only if the signature equals the
\* hex HMAC-SHA256 of orderId + "|" + paymentId under the secret, false for
\* every other signature including one of another length, always a boolean;
\* presenting the signature of a true result with a changed orderId or a
\* changed paymentId gives false.
C18_VerifyInbound ==
    vfy.pc = "verified" =>
        /\ vfy.result \in BOOLEAN
        /\ vfy.result <=>
             (vfy.signature = DesignInboundSignature(vfy.orderId, vfy.paymentId, vfy.keySecret))
        /\ vfy.signature \in {"", "deadbeef"} => ~vfy.result
        /\ (vfy.before.result /\ OneIdChanged) => ~vfy.result

\* a signature that verified for (order_1, pay_1) was presented again with
\* order_2 and was refused
C18_Witness ==
    /\ vfy.pc = "verified"
    /\ vfy.before = [orderId |-> "order_1", paymentId |-> "pay_1", result |-> TRUE]
    /\ vfy.orderId = "order_2" /\ vfy.paymentId = "pay_1"
    /\ ~vfy.result

ConfigurationError(result) ==
    /\ ~result.success
    /\ result.status = "failed"
    /\ result.errorCode = "no_processor_config"

\* C19: when no gateway credentials are stored for the merchant, the payment,
\* capture and refund activities return success=false, status=failed with
\* errorCode no_processor_config and issue no gateway call at all.
C19_NoProcessorConfig ==
    /\ \A k \in OpCallers :
          (op[k].pc = "returned" /\ ~op[k].config) =>
              /\ op[k].kind \in {"create", "refund"}
              /\ ConfigurationError(op[k].result)
              /\ op[k].sent = <<>>
    /\ \A k \in CapCallers :
          (cap[k].pc = "returned" /\ cap[k].outcome = "no_config") =>
              /\ ConfigurationError(cap[k].result)
              /\ ~cap[k].found
              /\ cap[k].issued = 0

\* a capture activity and a refund activity both ran for a merchant without
\* credentials and returned the configuration error; the gateway saw nothing
C19_Witness ==
    /\ \E k \in CapCallers :
          /\ cap[k].pc = "returned" /\ cap[k].outcome = "no_config"
          /\ cap[k].result.errorCode = "no_processor_config"
    /\ \E k \in OpCallers :
          /\ op[k].pc = "returned" /\ op[k].kind = "refund" /\ ~op[k].config
          /\ op[k].result.errorCode = "no_processor_config"
          /\ op[k].sent = <<>>
    /\ \A id \in PayIdSet : captureCalls[id] = 0

\* C20: when the first attempt of the order is in a gateway state other than
\* captured or authorized, captureOrder returns success=false with status
\* mapStatus of that state (created gives pending; failed or an unknown state
\* gives failed), with the gateway's error code and description if present,
\* and issues no capture call.
C20_CaptureFallthrough ==
    \A k \in CapCallers :
        (/\ cap[k].pc = "returned" /\ cap[k].found
         /\ cap[k].first.status \notin {"captured", "authorized"}) =>
            /\ ~cap[k].result.success
            /\ cap[k].result.status = DesignMapStatus(cap[k].first.status)
            /\ cap[k].result.errorCode = cap[k].first.error_code
            /\ cap[k].first.error_description # "" =>
                   cap[k].result.errorMessage = cap[k].first.error_description
            /\ cap[k].issued = 0

\* the fetch of the order's attempts resolved without any attempt
NoAttemptFetched(k) ==
    cap[k].pc = "returned" /\ ~cap[k].found /\ cap[k].outcome = ""

\* C21: when the gateway reports no payment attempt for the order (a missing
\* or an empty list), captureOrder returns success=false, status=failed with
\* errorCode no_payment and issues no gateway capture call.
C21_NoPaymentFails ==
    \A k \in CapCallers :
        NoAttemptFetched(k) =>
            /\ ~cap[k].result.success
            /\ cap[k].result.status = "failed"
            /\ cap[k].result.errorCode = "no_payment"
            /\ cap[k].issued = 0
            /\ cap[k].target = ""

\* captureOrder ran on an order nobody has tried to pay, returned no_payment,
\* and the gateway never saw a capture request
C21_Witness ==
    /\ items = <<>>
    /\ \E k \in CapCallers :
          /\ NoAttemptFetched(k)
          /\ cap[k].result.errorCode = "no_payment"
    /\ \A id \in PayIdSet : captureCalls[id] = 0

----------------------------------------------------------------------------
(* The design's statements about the outbound request *)

SecretConfigured == params.webhookSecret.def /\ params.webhookSecret.val # ""

\* v1=<hex HMAC-SHA256 of "{timestamp}.{body}" under the secret>
DesignOutboundSignature(timestamp, body, secret) ==
    "v1=" \o WebhookHmacSha256Hex(secret, timestamp \o "." \o body)

\* C22: every outbound webhook request carries X-Loop-Event-Id equal to the
\* event id and X-Loop-Timestamp; it carries X-Loop-Signature if and only if
\* a non-empty secret is configured, and then its value is "v1=" followed by
\* the hex HMAC-SHA256 under that secret of the X-Loop-Timestamp value, a
\* dot, and the body string sent in the request.
C22_OutboundHeaders ==
    \A c \in Callers :
        call[c].pc = "fetching" =>
            LET request == RequestInFlight(c)
            IN  /\ request.headers.XLoopEventId = params.webhookEventId
                /\ request.headers.XLoopTimestamp = ToString(call[c].postedAt)
                /\ request.body = JsonStringify(params.payload)
                /\ ("XLoopSignature" \in DOMAIN request.headers) <=> SecretConfigured
                /\ SecretConfigured =>
                       request.headers.XLoopSignature =
                           DesignOutboundSignature(request.headers.XLoopTimestamp,
                                                   request.body, params.webhookSecret.val)

\* the second POST of evt_2, sent 30 s after the first, is signed under
\* whsec_2 over its own timestamp and body
C22_Witness ==
    \E c \in Callers :
        /\ call[c].pc = "fetching"
        /\ posts = 2
        /\ params.webhookEventId = "evt_2"
        /\ params.webhookSecret = Val("whsec_2")
        /\ RequestInFlight(c).headers.XLoopTimestamp = "30000"
        /\ RequestInFlight(c).headers.XLoopSignature =
               "v1=hmac-sha256[whsec_2][30000." \o RequestInFlight(c).body \o "]"

----------------------------------------------------------------------------
(* Overlapping captureOrder calls *)

\* C23: over any interleaving of captureOrder calls for the same order, at
\* most one gateway capture call is issued per payment attempt: two
\* overlapping calls never both invoke the capture operation for the same
\* authorized attempt.
C23_OneCapturePerAttempt ==
    /\ \A id \in PayIdSet : captureCalls[id] <= 1
    /\ \A k1, k2 \in CapCallers :
          (/\ k1 # k2
           /\ cap[k1].issued > 0 /\ cap[k2].issued > 0) =>
              cap[k1].target # cap[k2].target

----------------------------------------------------------------------------
(* The DeliveryResult, the transport outcome and the stored record *)

\* the call of slot c got an HTTP response and ends in this step
EndsAfterResponse(c) ==
    /\ call[c].pc \in {"tryUpdate", "catchUpdate"}
    /\ call[c].code # 0
    /\ call'[c].pc \in {"returned", "threw"}

\* C24: the DeliveryResult agrees with the transport outcome and the stored
\* record: deliver returns success=true if and only if the HTTP response was
\* 2xx, and whenever the response was 2xx the record's status after the call
\* is delivered, also when the store update that follows the POST fails.
C24_ResultMatchesRecord ==
    [][\A c \in PollerCallers :
          EndsAfterResponse(c) =>
              /\ call'[c].pc = "returned" =>
                     (ret'.success <=> ResponseOk(call[c].code))
              /\ ResponseOk(call[c].code) => rec'.status = "delivered"
      ]_vars

====
